---- MODULE Spec2Model ----
(***************************************************************************)
(* Model of the circuit breaker of cb/cb.go: the breaker struct, Call and  *)
(* its three state handlers, the timeout-bounded executor runWithTimeout   *)
(* (operation goroutine, capacity-1 result channel, context deadline,      *)
(* select), and concurrent callers serialised by the breaker's mutex.      *)
(* Time is counted in whole seconds.                                       *)
(***************************************************************************)
EXTENDS Integers, Sequences, FiniteSets, TLC

\* ---- bounds of the model ----
NumCallers == 2
MaxCalls == 5
MaxTime == 2
MaxThreshold == 2
MaxHalfOpen == 2
MaxRecovery == 1

\* ---- program constants ----
Closed == "closed"
Open == "open"
HalfOpen == "half-open"

\* the deadline of context.WithTimeout, in seconds
Timeout == 2
\* capacity of resultChan
ChanCap == 1

Nil == "nil"
ErrTimeout == "request timed out"
ErrOpen == "circuit is open. Blocking request."
ErrUnknown == "unknown circuit state"

\* the zero time.Time a fresh breaker holds in LastFailureTime
ZeroTime == 0 - 1

Callers == 1..NumCallers
NoCaller == 0

\* what a supplied operation returns: the two returns of unreliableService
OpSuccess == [result |-> "42", err |-> Nil]
OpFailure == [result |-> "0", err |-> "service failed"]
OpOutcomes == {OpSuccess, OpFailure}

VARIABLES
    cb,          \* the circuitBreaker struct (all fields but mu)
    mu,          \* holder of cb.mu, NoCaller when unlocked
    now,         \* the wall clock
    pc,          \* per caller: "idle", "lock" (blocked in mu.Lock), "locked",
                 \* "select" (waiting in runWithTimeout)
    handler,     \* per caller: the state handler it is inside
    goroutine,   \* per caller: the operation goroutine of its current Call
    resultChan,  \* per caller: buffer of the current Call's resultChan
    ctxDone,     \* per caller: ctx.Done() of the current Call is closed
    deadline,    \* per caller: deadline of the current Call's context
    abandoned,   \* goroutines left behind by timed-out Calls
    first,       \* per caller: which came first in the current Call, the
                 \* operation's return ("op") or the timer ("timer")
    calls,       \* number of Calls entered so far
    invoked,     \* number of times a supplied operation was started
    episodeOps,  \* operations started since HalfOpen was last entered, while
                 \* the state was HalfOpen
    last,        \* the most recent return of Call, with the breaker before it
    streak,      \* consecutive failed Calls in Closed, counted from a Closed
                 \* breaker with FailureCount = 0
    probes,      \* consecutive successful Calls in the current HalfOpen episode
    openedFrom,  \* the state from which Open was last entered
    allOk,       \* every Call so far ran its operation and returned no error
    allFailed,   \* every Call so far was rejected or ran an operation that
                 \* failed
    script,      \* how many Calls of the scenario of
                 \* TestCircuitBreaker_OpenToHalfOpen, run with a threshold
                 \* of 2, the Calls so far make up
    lastFailAt   \* when the most recent Call that ran its operation and
                 \* failed returned, ZeroTime before the first

hist == <<last, streak, probes, openedFrom, allOk, allFailed, script,
          lastFailAt>>

vars == <<cb, mu, now, pc, handler, goroutine, resultChan, ctxDone, deadline,
          abandoned, first, calls, invoked, episodeOps, hist>>

\* ---- the breaker ----

NewCircuitBreaker(failureThreshold, recoveryTime, halfOpenMaxRequests) ==
    [FailureThreshold |-> failureThreshold,
     FailureCount |-> 0,
     RecoveryTime |-> recoveryTime,
     State |-> Closed,
     LastFailureTime |-> ZeroTime,
     HalfOpenSuccessCount |-> 0,
     HalfOpenMaxRequests |-> halfOpenMaxRequests]

\* time.Since(t) at clock value t0; the zero time is further back than any
\* recovery time
Since(t, t0) == IF t = ZeroTime THEN t0 + MaxRecovery + 1 ELSE t0 - t

\* recordFailure tripping only past the threshold
recordFailure_strict(b, t0) ==
    LET b1 == [b EXCEPT !.FailureCount = b.FailureCount + 1,
                        !.LastFailureTime = t0]
    IN IF b1.FailureCount > b1.FailureThreshold
       THEN [b1 EXCEPT !.State = Open]
       ELSE b1

recordFailure(b, t0) ==
    LET b1 == [b EXCEPT !.FailureCount = b.FailureCount + 1,
                        !.LastFailureTime = t0]
    IN IF b1.FailureCount >= b1.FailureThreshold
       THEN [b1 EXCEPT !.State = Open]
       ELSE b1

\* reset that leaves the failures counted so far
reset_keepCount(b) == [b EXCEPT !.State = Closed]

reset(b) == [b EXCEPT !.FailureCount = 0, !.State = Closed]

\* handleClosedState not counting a timeout as a failure
handleClosedState_timeoutFree(b, out, t0) ==
    IF out.err # Nil
    THEN [cb |-> IF out.err = ErrTimeout THEN b ELSE recordFailure(b, t0),
          result |-> Nil, err |-> out.err]
    ELSE [cb |-> reset(b), result |-> out.result, err |-> Nil]

\* handleClosedState recording the failure and dropping its error
handleClosedState_swallow(b, out, t0) ==
    IF out.err # Nil
    THEN [cb |-> recordFailure(b, t0), result |-> Nil, err |-> Nil]
    ELSE [cb |-> reset(b), result |-> out.result, err |-> Nil]

\* Each handler maps the breaker (and what runWithTimeout returned) to the
\* breaker afterwards and the pair Call returns.
handleClosedState(b, out, t0) ==
    IF out.err # Nil
    THEN [cb |-> recordFailure(b, t0), result |-> Nil, err |-> out.err]
    ELSE [cb |-> reset(b), result |-> out.result, err |-> Nil]

\* handleOpenState letting the probe through once RecoveryTime is reached
handleOpenState_atRecovery(b, t0) ==
    IF Since(b.LastFailureTime, t0) >= b.RecoveryTime
    THEN [cb |-> [b EXCEPT !.State = HalfOpen,
                           !.FailureCount = 0,
                           !.HalfOpenSuccessCount = 0],
          result |-> Nil, err |-> Nil]
    ELSE [cb |-> b, result |-> Nil, err |-> ErrOpen]

\* handleOpenState keeping the success count of the previous episode
handleOpenState_keepCount(b, t0) ==
    IF Since(b.LastFailureTime, t0) > b.RecoveryTime
    THEN [cb |-> [b EXCEPT !.State = HalfOpen,
                           !.FailureCount = 0],
          result |-> Nil, err |-> Nil]
    ELSE [cb |-> b, result |-> Nil, err |-> ErrOpen]

\* handleOpenState closing the breaker once the recovery time has passed
handleOpenState_closes(b, t0) ==
    IF Since(b.LastFailureTime, t0) > b.RecoveryTime
    THEN [cb |-> [b EXCEPT !.State = Closed,
                           !.FailureCount = 0,
                           !.HalfOpenSuccessCount = 0],
          result |-> Nil, err |-> Nil]
    ELSE [cb |-> b, result |-> Nil, err |-> ErrOpen]

\* handleOpenState restarting the recovery period on a rejected Call
handleOpenState_restart(b, t0) ==
    IF Since(b.LastFailureTime, t0) > b.RecoveryTime
    THEN [cb |-> [b EXCEPT !.State = HalfOpen,
                           !.FailureCount = 0,
                           !.HalfOpenSuccessCount = 0],
          result |-> Nil, err |-> Nil]
    ELSE [cb |-> [b EXCEPT !.LastFailureTime = t0],
          result |-> Nil, err |-> ErrOpen]

handleOpenState(b, t0) ==
    IF Since(b.LastFailureTime, t0) > b.RecoveryTime
    THEN [cb |-> [b EXCEPT !.State = HalfOpen,
                           !.FailureCount = 0,
                           !.HalfOpenSuccessCount = 0],
          result |-> Nil, err |-> Nil]
    ELSE [cb |-> b, result |-> Nil, err |-> ErrOpen]

\* handleHalfOpenState counting a failure against the threshold as Closed does
handleHalfOpenState_counting(b, out, t0) ==
    IF out.err # Nil
    THEN [cb |-> [recordFailure(b, t0) EXCEPT
                      !.State = IF @ = Open THEN Open ELSE HalfOpen],
          result |-> Nil, err |-> out.err]
    ELSE LET b1 == [b EXCEPT !.HalfOpenSuccessCount =
                                 b.HalfOpenSuccessCount + 1]
         IN [cb |-> IF b1.HalfOpenSuccessCount >= b1.HalfOpenMaxRequests
                    THEN reset(b1) ELSE b1,
             result |-> out.result, err |-> Nil]

\* handleHalfOpenState closing only past HalfOpenMaxRequests successes
handleHalfOpenState_late(b, out, t0) ==
    IF out.err # Nil
    THEN [cb |-> [b EXCEPT !.State = Open, !.LastFailureTime = t0],
          result |-> Nil, err |-> out.err]
    ELSE LET b1 == [b EXCEPT !.HalfOpenSuccessCount =
                                 b.HalfOpenSuccessCount + 1]
         IN [cb |-> IF b1.HalfOpenSuccessCount > b1.HalfOpenMaxRequests
                    THEN reset(b1) ELSE b1,
             result |-> out.result, err |-> Nil]

\* handleHalfOpenState closing on the first success
handleHalfOpenState_eager(b, out, t0) ==
    IF out.err # Nil
    THEN [cb |-> [b EXCEPT !.State = Open, !.LastFailureTime = t0],
          result |-> Nil, err |-> out.err]
    ELSE [cb |-> reset([b EXCEPT !.HalfOpenSuccessCount =
                                     b.HalfOpenSuccessCount + 1]),
          result |-> out.result, err |-> Nil]

handleHalfOpenState(b, out, t0) ==
    IF out.err # Nil
    THEN [cb |-> [b EXCEPT !.State = Open, !.LastFailureTime = t0],
          result |-> Nil, err |-> out.err]
    ELSE LET b1 == [b EXCEPT !.HalfOpenSuccessCount =
                                 b.HalfOpenSuccessCount + 1]
         IN [cb |-> IF b1.HalfOpenSuccessCount >= b1.HalfOpenMaxRequests
                    THEN reset(b1) ELSE b1,
             result |-> out.result, err |-> Nil]

\* ---- the bounded executor ----

\* a send on a channel without a buffer
CanSend_unbuffered(buf, receiverWaiting) == receiverWaiting

\* a send on a channel completes when the buffer has room or a receiver waits
CanSend(buf, receiverWaiting) == Len(buf) < ChanCap \/ receiverWaiting

\* a select that waits for the result only
SelectCases_resultOnly(c) ==
    {[case |-> "result", result |-> resultChan[c][1].result,
      err |-> resultChan[c][1].err] :
        x \in IF resultChan[c] # <<>> THEN {1} ELSE {}}

\* a select that, with both communications ready, hands on the operation's
\* result together with the timeout error
SelectCases_both(c) ==
    IF ctxDone[c] /\ resultChan[c] # <<>>
    THEN {[case |-> "result", result |-> resultChan[c][1].result,
           err |-> ErrTimeout]}
    ELSE {[case |-> "timeout", result |-> Nil, err |-> ErrTimeout] :
             x \in IF ctxDone[c] THEN {1} ELSE {}}
         \cup
         {[case |-> "result", result |-> resultChan[c][1].result,
           err |-> resultChan[c][1].err] :
             x \in IF resultChan[c] # <<>> THEN {1} ELSE {}}

\* a select with a default case, which does not wait
SelectCases_default(c) ==
    {[case |-> "timeout", result |-> Nil, err |-> ErrTimeout] :
        x \in IF ctxDone[c] THEN {1} ELSE {}}
    \cup
    {[case |-> "result", result |-> resultChan[c][1].result,
      err |-> resultChan[c][1].err] :
        x \in IF resultChan[c] # <<>> THEN {1} ELSE {}}
    \cup
    {[case |-> "default", result |-> Nil, err |-> Nil] :
        x \in IF ~ctxDone[c] /\ resultChan[c] = <<>> THEN {1} ELSE {}}

\* the communications of the select in runWithTimeout that can proceed
SelectCases(c) ==
    {[case |-> "timeout", result |-> Nil, err |-> ErrTimeout] :
        x \in IF ctxDone[c] THEN {1} ELSE {}}
    \cup
    {[case |-> "result", result |-> resultChan[c][1].result,
      err |-> resultChan[c][1].err] :
        x \in IF resultChan[c] # <<>> THEN {1} ELSE {}}

\* ---- bookkeeping of what has happened ----

NoLast ==
    [via |-> "none", pre |-> NewCircuitBreaker(1, 0, 1),
     at |-> 0, ranOp |-> FALSE, opDone |-> FALSE, expired |-> FALSE,
     first |-> "none", left |-> FALSE,
     res |-> [result |-> Nil, err |-> Nil], result |-> Nil, err |-> Nil]

Returned(via, pre, ranOp, opDone, expired, fst, left, res, r) ==
    [via |-> via, pre |-> pre, at |-> now, ranOp |-> ranOp,
     opDone |-> opDone, expired |-> expired, first |-> fst, left |-> left,
     res |-> res,
     result |-> r.result, err |-> r.err]

\* a Call that ran its operation and got an error or a timeout
Failed(via, r) == via \in {"timeout", "result"} /\ r.err # Nil
\* a Call that ran its operation and got its result
Succeeded(via, r) == via = "result" /\ r.err = Nil

NextStreak(pre, via, r) ==
    CASE pre.State = Closed /\ Failed(via, r) ->
             IF pre.FailureCount = 0 THEN 1
             ELSE IF streak > 0 THEN streak + 1 ELSE 0
      [] via = "rejected" -> streak
      [] OTHER -> 0

NextProbes(pre, via, r) ==
    CASE pre.State = HalfOpen /\ Succeeded(via, r) -> probes + 1
      [] via = "transition" -> 0
      [] OTHER -> probes

NextOpenedFrom(pre, r) ==
    IF r.cb.State = Open /\ pre.State # Open THEN pre.State ELSE openedFrom

\* The scenario: two Calls whose operation returns an error, a third Call
\* at once, a fourth after more than RecoveryTime, a fifth whose operation
\* returns a result.  OffScript once the Calls made are not a start of it.
OffScript == 0 - 1

NextScript(via, res) ==
    CASE script \in {0, 1} ->
             IF via = "result" /\ res = OpFailure THEN script + 1
             ELSE OffScript
      [] script = 2 -> IF now = last.at THEN 3 ELSE OffScript
      [] script = 3 ->
             IF now - last.at > cb.RecoveryTime THEN 4 ELSE OffScript
      [] script = 4 ->
             IF via = "result" /\ res = OpSuccess THEN 5 ELSE OffScript
      [] OTHER -> OffScript

\* ---- initial state ----

Init ==
    /\ \E t \in 1..MaxThreshold, r \in 0..MaxRecovery, m \in 1..MaxHalfOpen :
           cb = NewCircuitBreaker(t, r, m)
    /\ mu = NoCaller
    /\ now = 0
    /\ pc = [c \in Callers |-> "idle"]
    /\ handler = [c \in Callers |-> "none"]
    /\ goroutine = [c \in Callers |-> "none"]
    /\ resultChan = [c \in Callers |-> <<>>]
    /\ ctxDone = [c \in Callers |-> FALSE]
    /\ deadline = [c \in Callers |-> 0]
    /\ abandoned = [running |-> 0, sending |-> 0]
    /\ first = [c \in Callers |-> "none"]
    /\ calls = 0
    /\ invoked = 0
    /\ episodeOps = 0
    /\ last = NoLast
    /\ streak = 0
    /\ probes = 0
    /\ openedFrom = "none"
    /\ allOk = TRUE
    /\ allFailed = TRUE
    /\ script = 0
    /\ lastFailAt = ZeroTime

\* ---- actions ----

\* a caller enters Call and reaches cb.mu.Lock(); idle callers are
\* interchangeable, so the one that enters is the first of them
CallEnter(c) ==
    /\ pc[c] = "idle"
    /\ \A d \in Callers : d < c => pc[d] # "idle"
    /\ calls < MaxCalls
    /\ pc' = [pc EXCEPT ![c] = "lock"]
    /\ calls' = calls + 1
    /\ UNCHANGED <<cb, mu, now, handler, goroutine, resultChan, ctxDone,
                   deadline, abandoned, invoked, episodeOps,
                   first, hist>>

\* a Lock that never waits
LockFree_always(c) == TRUE

\* cb.mu.Lock() succeeds when the mutex is free
LockFree(c) == mu = NoCaller

\* the caller's return from Call: the deferred cancel and Unlock run, the
\* operation goroutine of a timed-out Call is left behind
Return(c, via, r, res) ==
    /\ cb' = r.cb
    /\ mu' = NoCaller
    /\ pc' = [pc EXCEPT ![c] = "idle"]
    /\ handler' = [handler EXCEPT ![c] = "none"]
    /\ goroutine' = [goroutine EXCEPT ![c] = "none"]
    /\ resultChan' = [resultChan EXCEPT ![c] = <<>>]
    /\ ctxDone' = [ctxDone EXCEPT ![c] = FALSE]
    /\ deadline' = [deadline EXCEPT ![c] = 0]
    /\ first' = [first EXCEPT ![c] = "none"]
    /\ abandoned' =
           [running |-> abandoned.running +
                        (IF goroutine[c] = "running" THEN 1 ELSE 0),
            sending |-> abandoned.sending +
                        (IF goroutine[c] = "sending" THEN 1 ELSE 0)]
    /\ last' = Returned(via, cb, goroutine[c] # "none",
                        resultChan[c] # <<>>, ctxDone[c], first[c],
                        goroutine[c] = "running", res, r)
    /\ streak' = NextStreak(cb, via, r)
    /\ probes' = NextProbes(cb, via, r)
    /\ openedFrom' = NextOpenedFrom(cb, r)
    /\ allOk' = (allOk /\ Succeeded(via, r))
    /\ allFailed' = (allFailed /\ (via = "rejected" \/ Failed(via, r)))
    /\ script' = NextScript(via, res)
    /\ lastFailAt' = IF Failed(via, r) THEN now ELSE lastFailAt

\* cb.mu.Lock() returns: the caller holds the mutex
CallLock(c) ==
    /\ pc[c] = "lock"
    /\ LockFree(c)
    /\ mu' = c
    /\ pc' = [pc EXCEPT ![c] = "locked"]
    /\ UNCHANGED <<cb, now, handler, goroutine, resultChan, ctxDone,
                   deadline, abandoned, calls, invoked, episodeOps,
                   first, hist>>

\* Call dispatches on cb.State.  In Open the whole of handleOpenState runs
\* and Call returns; in Closed and HalfOpen the handler enters
\* runWithTimeout, which starts the operation on its own goroutine and waits
\* in the select; any other state value returns the unknown-state error.
CallDispatch(c) ==
    /\ pc[c] = "locked"
    /\ CASE cb.State = Open ->
              LET r == handleOpenState(cb, now)
              IN /\ Return(c, IF r.err = Nil THEN "transition" ELSE "rejected",
                           r, [result |-> Nil, err |-> Nil])
                 /\ episodeOps' = IF r.err = Nil THEN 0 ELSE episodeOps
                 /\ UNCHANGED <<now, calls, invoked>>
         [] cb.State \in {Closed, HalfOpen} ->
              /\ pc' = [pc EXCEPT ![c] = "select"]
              /\ handler' = [handler EXCEPT ![c] = cb.State]
              /\ goroutine' = [goroutine EXCEPT ![c] = "running"]
              /\ resultChan' = [resultChan EXCEPT ![c] = <<>>]
              /\ ctxDone' = [ctxDone EXCEPT ![c] = FALSE]
              /\ deadline' = [deadline EXCEPT ![c] = now + Timeout]
              /\ invoked' = invoked + 1
              /\ episodeOps' =
                     IF cb.State = HalfOpen THEN episodeOps + 1 ELSE episodeOps
              /\ UNCHANGED <<cb, mu, now, abandoned, calls, first, hist>>
         [] OTHER ->
              /\ Return(c, "unknown",
                        [cb |-> cb, result |-> Nil, err |-> ErrUnknown],
                        [result |-> Nil, err |-> Nil])
              /\ UNCHANGED <<now, calls, invoked, episodeOps>>

\* the operation of the caller's current Call returns and its goroutine
\* sends the pair into resultChan
OpReturn(c) ==
    /\ goroutine[c] = "running"
    /\ \E out \in OpOutcomes :
           IF CanSend(resultChan[c], pc[c] = "select")
           THEN /\ resultChan' = [resultChan EXCEPT ![c] = Append(@, out)]
                /\ goroutine' = [goroutine EXCEPT ![c] = "done"]
           ELSE /\ goroutine' = [goroutine EXCEPT ![c] = "sending"]
                /\ UNCHANGED resultChan
    /\ first' = [first EXCEPT ![c] = IF @ = "none" THEN "op" ELSE @]
    /\ UNCHANGED <<cb, mu, now, pc, handler, ctxDone, deadline, abandoned,
                   calls, invoked, episodeOps,
                   hist>>

\* the context's timer fires at or after the deadline and closes ctx.Done()
TimerFire(c) ==
    /\ pc[c] = "select"
    /\ ~ctxDone[c]
    /\ now >= deadline[c]
    /\ ctxDone' = [ctxDone EXCEPT ![c] = TRUE]
    /\ first' = [first EXCEPT ![c] = IF @ = "none" THEN "timer" ELSE @]
    /\ UNCHANGED <<cb, mu, now, pc, handler, goroutine, resultChan, deadline,
                   abandoned, calls, invoked, episodeOps,
                   hist>>

\* the select of runWithTimeout takes one communication that can proceed;
\* the rest of the handler runs on what runWithTimeout returned and Call
\* returns
SelectReturn(c) ==
    /\ pc[c] = "select"
    /\ \E out \in SelectCases(c) :
           LET r == IF handler[c] = Closed
                    THEN handleClosedState(cb, out, now)
                    ELSE handleHalfOpenState(cb, out, now)
           IN Return(c, out.case, r,
                     IF out.case = "result" THEN resultChan[c][1]
                     ELSE [result |-> Nil, err |-> Nil])
    /\ UNCHANGED <<now, calls, invoked, episodeOps>>

\* the operation of a timed-out Call returns at last; nobody receives from
\* its channel any more
AbandonedReturn ==
    /\ abandoned.running > 0
    /\ abandoned' =
           IF CanSend(<<>>, FALSE)
           THEN [abandoned EXCEPT !.running = @ - 1]
           ELSE [abandoned EXCEPT !.running = @ - 1, !.sending = @ + 1]
    /\ UNCHANGED <<cb, mu, now, pc, handler, goroutine, resultChan, ctxDone,
                   deadline, calls, invoked, episodeOps,
                   first, hist>>

\* a Call waits for a deadline that has not come yet
AwaitingDeadline ==
    \E c \in Callers : pc[c] = "select" /\ ~ctxDone[c] /\ now < deadline[c]

\* one second passes
Tick ==
    /\ now < MaxTime \/ AwaitingDeadline
    /\ now' = now + 1
    /\ UNCHANGED <<cb, mu, pc, handler, goroutine, resultChan, ctxDone,
                   deadline, abandoned, calls, invoked, episodeOps,
                   first, hist>>

Next ==
    \/ \E c \in Callers : CallEnter(c)
    \/ \E c \in Callers : CallLock(c)
    \/ \E c \in Callers : CallDispatch(c)
    \/ \E c \in Callers : OpReturn(c)
    \/ \E c \in Callers : TimerFire(c)
    \/ \E c \in Callers : SelectReturn(c)
    \/ AbandonedReturn
    \/ Tick

Spec == Init /\ [][Next]_vars

\* The scheduling the Go runtime gives: the mutex is handed to a caller that
\* keeps waiting for it, a runnable caller runs, the clock advances and the
\* context's timer fires.  Nothing makes a supplied operation return.
Fairness ==
    /\ \A c \in Callers : SF_vars(CallLock(c))
    /\ \A c \in Callers : WF_vars(CallDispatch(c))
    /\ \A c \in Callers : WF_vars(TimerFire(c))
    /\ \A c \in Callers : WF_vars(SelectReturn(c))
    /\ WF_vars(Tick)

LiveSpec == Spec /\ Fairness

\* ---- properties ----

\* time.Since(LastFailureTime) as the most recent Call saw it
Elapsed == Since(last.pre.LastFailureTime, last.at)
\* the most recent Call ran its operation and failed (error or timeout)
LastFailed == last.via \in {"timeout", "result"} /\ last.err # Nil
\* the most recent Call ran its operation and returned its result
LastSucceeded == last.via = "result" /\ last.err = Nil

\* C1: counting from a Closed breaker with FailureCount = 0, the breaker is
\* still Closed after each of the first FailureThreshold - 1 consecutive
\* failed Calls and Open after the FailureThreshold-th; a Call that then
\* comes before RecoveryTime has elapsed is rejected and runs no operation.
C1_TripsAtThreshold ==
    /\ (last.pre.State = Closed /\ LastFailed /\ streak >= 1) =>
           /\ streak <= cb.FailureThreshold
           /\ streak < cb.FailureThreshold => cb.State = Closed
           /\ streak = cb.FailureThreshold => cb.State = Open
    /\ (last.pre.State = Open /\ openedFrom = Closed
            /\ Elapsed < cb.RecoveryTime) =>
           /\ last.err = ErrOpen
           /\ ~last.ranOp
           /\ cb.State = Open

C1_Witness ==
    /\ last.via = "rejected"
    /\ openedFrom = Closed
    /\ cb.FailureThreshold = MaxThreshold
    /\ streak = cb.FailureThreshold
    /\ Elapsed < cb.RecoveryTime

\* C2: a Call that finds the breaker Open no later than RecoveryTime after
\* LastFailureTime (exactly RecoveryTime included) returns the rejection
\* error and runs no operation, whether Open was entered from Closed or from
\* HalfOpen.
C2_OpenRejects ==
    (last.pre.State = Open /\ Elapsed <= cb.RecoveryTime) =>
        /\ last.via = "rejected"
        /\ last.result = Nil
        /\ last.err = ErrOpen
        /\ ~last.ranOp
        /\ openedFrom \in {Closed, HalfOpen}

\* a rejection exactly RecoveryTime after a failure in HalfOpen
C2_Witness ==
    /\ last.via = "rejected"
    /\ openedFrom = HalfOpen
    /\ Elapsed = cb.RecoveryTime

\* C3: a Call that finds the breaker Open more than RecoveryTime after
\* LastFailureTime sets the state to HalfOpen, FailureCount and
\* HalfOpenSuccessCount to 0 and returns (nil, nil) without running the
\* operation; a Call that finds the breaker HalfOpen runs its operation.
C3_OpenToHalfOpen ==
    /\ (last.pre.State = Open /\ Elapsed > cb.RecoveryTime) =>
           /\ last.via = "transition"
           /\ cb.State = HalfOpen
           /\ cb.FailureCount = 0
           /\ cb.HalfOpenSuccessCount = 0
           /\ last.result = Nil
           /\ last.err = Nil
           /\ ~last.ranOp
    /\ (last.via # "none" /\ last.pre.State = HalfOpen) => last.ranOp

\* the transition Call of a breaker whose counters were not 0 before it
C3_Witness ==
    /\ last.via = "transition"
    /\ last.pre.FailureCount > 0
    /\ last.pre.HalfOpenSuccessCount > 0
    /\ cb.State = HalfOpen

\* C4: a Call that fails in HalfOpen (error or timeout) leaves the breaker
\* Open with LastFailureTime set to the time of the failure, whatever
\* HalfOpenMaxRequests and the successes counted so far.
C4_HalfOpenFailureOpens ==
    (last.pre.State = HalfOpen /\ LastFailed) =>
        /\ cb.State = Open
        /\ cb.LastFailureTime = last.at

\* a failure in HalfOpen after a counted success, below the threshold
C4_Witness ==
    /\ last.pre.State = HalfOpen
    /\ LastFailed
    /\ last.pre.HalfOpenSuccessCount >= 1
    /\ cb.HalfOpenMaxRequests > 1
    /\ cb.FailureThreshold > 1
    /\ cb.FailureCount < cb.FailureThreshold
    /\ cb.LastFailureTime > last.pre.LastFailureTime

\* C5: in HalfOpen the breaker stays HalfOpen after each of the first
\* HalfOpenMaxRequests - 1 consecutive successful Calls and is Closed after
\* the HalfOpenMaxRequests-th; each of them returns the operation's result
\* and no error.
C5_HalfOpenCloses ==
    (last.pre.State = HalfOpen /\ last.via = "result" /\ last.res.err = Nil) =>
        /\ last.result = last.res.result
        /\ last.err = Nil
        /\ probes >= 1
        /\ probes <= cb.HalfOpenMaxRequests
        /\ probes < cb.HalfOpenMaxRequests => cb.State = HalfOpen
        /\ probes = cb.HalfOpenMaxRequests => cb.State = Closed

C5_Witness ==
    /\ last.pre.State = HalfOpen
    /\ LastSucceeded
    /\ cb.HalfOpenMaxRequests = MaxHalfOpen
    /\ probes = cb.HalfOpenMaxRequests
    /\ cb.State = Closed
    /\ last.result # Nil

\* the breaker after the most recent Call, had its operation returned an
\* error of its own
AsOperationError ==
    IF last.pre.State = Closed
    THEN handleClosedState(last.pre, OpFailure,
                           last.at).cb
    ELSE handleHalfOpenState(last.pre, OpFailure,
                             last.at).cb

InHandler(c) == pc[c] \in {"locked", "select"}

\* C8: at most one Call is between acquiring and releasing the lock, the
\* wait in runWithTimeout included; a caller inside a handler, where the
\* fields are read, holds the lock, and every change of the fields is made
\* by the lock holder on its way out of Call.
C8_LockSerialises ==
    /\ [](\A c, d \in Callers : (InHandler(c) /\ InHandler(d)) => c = d)
    /\ [](\A c \in Callers : InHandler(c) => mu = c)
    /\ [][cb' # cb =>
             \E c \in Callers : mu = c /\ InHandler(c) /\ pc'[c] = "idle"]_vars

\* a caller queues on the lock while the holder waits past the deadline
C8_Witness ==
    \E c, d \in Callers :
        /\ pc[c] = "select"
        /\ ctxDone[c]
        /\ mu = c
        /\ pc[d] = "lock"

\* C9: every Call returns, also when its operation never completes, and the
\* lock is released by then, so a caller queued on the lock gets its return
\* too.
C9_CallReturns ==
    \A c \in Callers : (pc[c] # "idle") ~> (pc[c] = "idle" /\ mu # c)

\* a Call has returned on the timeout, its operation still running, while
\* another caller waits for the lock
C9_Witness ==
    /\ last.via = "timeout"
    /\ abandoned.running > 0
    /\ mu = NoCaller
    /\ \E c \in Callers : pc[c] = "lock"

\* C10: a successful Call in Closed leaves FailureCount = 0 and the state
\* Closed; while every Call so far succeeded the breaker is Closed with
\* FailureCount = 0; the breaker goes from Closed to Open only on the
\* FailureThreshold-th of consecutive failed Calls.
C10_SuccessResets ==
    /\ (last.pre.State = Closed /\ LastSucceeded) =>
           /\ cb.FailureCount = 0
           /\ cb.State = Closed
    /\ allOk => (cb.FailureCount = 0 /\ cb.State = Closed)
    /\ (last.pre.State = Closed /\ cb.State = Open) =>
           /\ LastFailed
           /\ streak = cb.FailureThreshold

\* a success right after a counted failure
C10_Witness ==
    /\ last.pre.State = Closed
    /\ LastSucceeded
    /\ last.pre.FailureCount > 0
    /\ cb.FailureCount = 0
    /\ cb.State = Closed

\* C11: from the Call that enters HalfOpen until the state changes again,
\* at most HalfOpenMaxRequests operations are started, however many callers
\* are inside Call.
C11_HalfOpenAdmitsAtMostMax == episodeOps <= cb.HalfOpenMaxRequests

\* the last admitted operation is running while another caller waits
C11_Witness ==
    /\ cb.State = HalfOpen
    /\ cb.HalfOpenMaxRequests = MaxHalfOpen
    /\ episodeOps = cb.HalfOpenMaxRequests
    /\ \E c, d \in Callers :
           pc[c] = "select" /\ handler[c] = HalfOpen /\ pc[d] = "lock"

\* C12: when a success in HalfOpen closes the breaker, FailureCount and
\* HalfOpenSuccessCount are both 0 in the Closed state it leaves.
C12_ClosingResetsCounters ==
    (last.pre.State = HalfOpen /\ cb.State = Closed) =>
        /\ cb.FailureCount = 0
        /\ cb.HalfOpenSuccessCount = 0

\* the operations that are executing: those of Calls still waiting and
\* those left behind by Calls that returned
InFlight ==
    abandoned.running + Cardinality({c \in Callers : goroutine[c] = "running"})

\* C13 as stated: at most one operation started through the breaker is
\* executing at any time, also after a Call ended in a timeout.
C13_OneOperationInFlight == InFlight <= 1

\* C13: a Call starts its operation only when no operation of a Call that
\* has not returned is executing, and an operation outlives its Call only
\* when that Call ended in a timeout.
C13_OneOperationPerWaitingCall ==
    /\ [][invoked' # invoked =>
             \A c \in Callers : goroutine[c] # "running"]_vars
    /\ [][abandoned'.running > abandoned.running =>
             last'.via = "timeout"]_vars

\* an operation is started while that of a timed-out Call still executes
C13_Witness ==
    /\ abandoned.running >= 1
    /\ \E c \in Callers : goroutine[c] = "running"

\* C14: a Call that ran its operation got from runWithTimeout either the
\* timeout error, with nothing of the operation's return, or the operation's
\* return, without the timeout error; one of the two always, also when the
\* operation had completed and the deadline had fired before the select ran.
C14_ExactlyOneReported ==
    last.ranOp =>
        /\ last.via \in {"timeout", "result"}
        /\ last.via = "timeout" =>
               /\ last.expired
               /\ last.res = [result |-> Nil, err |-> Nil]
               /\ last.result = Nil
               /\ last.err = ErrTimeout
        /\ last.via = "result" =>
               /\ last.opDone
               /\ last.res \in OpOutcomes
               /\ last.err = last.res.err
               /\ last.result =
                      IF last.res.err = Nil THEN last.res.result ELSE Nil

\* the operation had completed and the deadline had fired when the select
\* ran, and the timeout was reported
C14_Witness ==
    /\ last.ranOp
    /\ last.opDone
    /\ last.expired
    /\ last.via = "timeout"

Min(a, b) == IF a <= b THEN a ELSE b

\* no caller is inside Call
AllReturned == \A c \in Callers : pc[c] = "idle"

\* C15: when the Calls made on a fresh breaker, by however many callers at
\* once, all have failing operations and no recovery time elapses, then once
\* they have all returned exactly min(N, FailureThreshold) operations were
\* started, the other Calls were rejected, FailureCount is
\* min(N, FailureThreshold), and the state is Open iff N >= FailureThreshold.
C15_ConcurrentFailures ==
    (allFailed /\ AllReturned) =>
        /\ invoked = Min(calls, cb.FailureThreshold)
        /\ cb.FailureCount = Min(calls, cb.FailureThreshold)
        /\ cb.State = IF calls >= cb.FailureThreshold THEN Open ELSE Closed

\* more failing Calls than the threshold, the surplus rejected
C15_Witness ==
    /\ allFailed
    /\ AllReturned
    /\ cb.FailureThreshold = MaxThreshold
    /\ calls > cb.FailureThreshold + 1
    /\ invoked = cb.FailureThreshold
    /\ last.via = "rejected"

\* the breaker of the scenario
ScenarioBreaker == cb.FailureThreshold = 2 /\ cb.HalfOpenMaxRequests = 2

\* the Calls of the scenario up to the one that enters HalfOpen
ScenarioPrefix ==
    /\ script = 2 => cb.State = Open
    /\ script = 3 => (last.err = ErrOpen /\ ~last.ranOp)
    /\ script = 4 =>
           /\ last.result = Nil
           /\ last.err = Nil
           /\ ~last.ranOp
           /\ cb.State = HalfOpen

\* C16 as stated: with FailureThreshold = 2 and HalfOpenMaxRequests = 2, two
\* failing Calls leave the breaker Open, a Call at once is rejected, a Call
\* after more than RecoveryTime returns (nil, nil) and leaves it HalfOpen,
\* and one more Call with a succeeding operation returns its result and
\* leaves the breaker Closed.
C16_ScenarioEndsClosed ==
    ScenarioBreaker =>
        /\ ScenarioPrefix
        /\ script = 5 =>
               /\ last.result = OpSuccess.result
               /\ last.err = Nil
               /\ cb.State = Closed

\* C16: the same scenario, whose last Call returns the operation's result
\* and leaves the breaker HalfOpen, one success short of
\* HalfOpenMaxRequests = 2.
C16_ScenarioEndsHalfOpen ==
    ScenarioBreaker =>
        /\ ScenarioPrefix
        /\ script = 5 =>
               /\ last.result = OpSuccess.result
               /\ last.err = Nil
               /\ cb.State = HalfOpen
               /\ cb.HalfOpenSuccessCount = 1

\* the five Calls of the scenario have been made
C16_Witness == ScenarioBreaker /\ script = 5

\* C17: a Call whose operation returned before the timer of its context
\* fired returns what the operation returned and not the timeout error,
\* whenever the waiting caller gets to run.
C17_CompletedFirstIsReturned ==
    last.first = "op" =>
        /\ last.via = "result"
        /\ last.res \in OpOutcomes
        /\ last.err = last.res.err
        /\ last.err # ErrTimeout

\* C18: the operation's goroutine is never blocked in its send, neither the
\* one of a Call still waiting nor one left behind by a timed-out Call.
C18_SendNeverBlocks ==
    /\ \A c \in Callers : goroutine[c] # "sending"
    /\ abandoned.sending = 0

\* the goroutine left behind by the last Call, which timed out, has sent
\* its result and ended
C18_Witness ==
    /\ last.via = "timeout"
    /\ last.left
    /\ abandoned.running = 0
    /\ abandoned.sending = 0

\* C19 as stated: when a Call returns, the goroutine it started is not
\* running any more, also when the Call timed out.
C19_NoThreadOutlivesCall == ~last.left

\* C19: a Call that returns otherwise than by timeout leaves no goroutine
\* running; a goroutine left running was left by a timed-out Call before
\* its operation returned.
C19_OnlyTimeoutLeavesThread ==
    /\ last.left => (last.via = "timeout" /\ ~last.opDone /\ last.expired)
    /\ last.via = "none" => abandoned.running = 0

\* a timed-out Call has returned and its operation is still running
C19_Witness ==
    /\ last.via = "timeout"
    /\ last.left
    /\ abandoned.running > 0
    /\ \A c \in Callers : pc[c] = "idle"

\* the state changes of the breaker
LegalEdges ==
    {<<Closed, Open>>, <<Open, HalfOpen>>, <<HalfOpen, Closed>>,
     <<HalfOpen, Open>>}

\* C20: the state is always Closed, Open or HalfOpen, Closed before the
\* first Call, it changes along the four edges only, and no Call returns
\* the unknown-state error.
C20_StateMachine ==
    /\ [](cb.State \in {Closed, Open, HalfOpen})
    /\ [](calls = 0 => cb.State = Closed)
    /\ [][cb'.State # cb.State => <<cb.State, cb'.State>> \in LegalEdges]_vars
    /\ [](last.via # "unknown" /\ last.err # ErrUnknown)

\* all four edges taken: Open was last entered from HalfOpen and the
\* breaker has closed from HalfOpen since
C20_Witness ==
    /\ openedFrom = HalfOpen
    /\ last.pre.State = HalfOpen
    /\ cb.State = Closed

\* C21: a Call rejected in Open leaves every field of the breaker as it
\* was; while Open, LastFailureTime is the time of the last Call that
\* failed, and a Call in Open goes HalfOpen exactly when more than
\* RecoveryTime has passed since that failure, however many Calls were
\* rejected in between.
C21_RejectedChangesNothing ==
    /\ last.via = "rejected" =>
           /\ cb = last.pre
           /\ cb.State = Open
    /\ cb.State = Open => cb.LastFailureTime = lastFailAt
    /\ last.via \in {"rejected", "transition"} =>
           (last.via = "transition" <=>
                Since(lastFailAt, last.at) > cb.RecoveryTime)

\* a Call rejected later than the failure that opened the breaker
C21_Witness ==
    /\ last.via = "rejected"
    /\ last.at > lastFailAt
    /\ lastFailAt # ZeroTime
    /\ cb.State = Open

\* C22: the counters stay within their bounds: 0 <= FailureCount <=
\* FailureThreshold and 0 <= HalfOpenSuccessCount <= HalfOpenMaxRequests;
\* FailureCount is below the threshold in Closed, 0 in HalfOpen with
\* HalfOpenSuccessCount below HalfOpenMaxRequests, and 0 or
\* FailureThreshold in Open.
C22_CounterBounds ==
    /\ cb.FailureThreshold >= 1
    /\ cb.HalfOpenMaxRequests >= 1
    /\ cb.FailureCount \in 0..cb.FailureThreshold
    /\ cb.HalfOpenSuccessCount \in 0..cb.HalfOpenMaxRequests
    /\ cb.State = Closed => cb.FailureCount < cb.FailureThreshold
    /\ cb.State = HalfOpen =>
           /\ cb.FailureCount = 0
           /\ cb.HalfOpenSuccessCount < cb.HalfOpenMaxRequests
    /\ cb.State = Open => cb.FailureCount \in {0, cb.FailureThreshold}

\* Open entered from HalfOpen with FailureCount 0 and a success counted,
\* after Open had been entered at the threshold
C22_Witness ==
    /\ cb.State = Open
    /\ cb.FailureCount = 0
    /\ cb.HalfOpenSuccessCount = cb.HalfOpenMaxRequests - 1
    /\ cb.HalfOpenSuccessCount >= 1
    /\ cb.FailureThreshold = MaxThreshold
    /\ openedFrom = HalfOpen

====
